---- MODULE Spec2Model ----
(***************************************************************************)
(* The CRM mutation handlers of crm/schema.py over the models of           *)
(* crm/models.py: customers, products and orders kept in a relational      *)
(* store, each handler one atomic step (requests run one at a time).       *)
(*                                                                         *)
(* Amounts are integers in thousandths of a currency unit, so that a       *)
(* Decimal input with three decimal places is representable and the        *)
(* two-decimal-places check of the price column can reject it.             *)
(***************************************************************************)
EXTENDS Integers, Sequences, FiniteSets, TLC

VARIABLES
    customers,  \* Customer table: row i has primary key i
    products,   \* Product table: row i has primary key i
    orders,     \* Order table with the many-to-many product sets
    now,        \* the clock that timezone.now and datetime.now read, in days
    logs,       \* the append-only log files of the periodic jobs, one per job
    last        \* the last handler call: its input, the store before it, its result

vars == <<customers, products, orders, now, logs, last>>

----------------------------------------------------------------------------
(* Bounds of the exploration *)

MaxBatch == 3      \* longest BulkCreateCustomers input
MaxProducts == 3   \* most Product rows
MaxCatalog == 2    \* most Product rows while orders are placed
MaxOrders == 1     \* most Order rows

RECURSIVE SeqsUpTo(_, _)
SeqsUpTo(S, n) ==
    IF n = 0 THEN {<<>>}
    ELSE LET shorter == SeqsUpTo(S, n - 1)
         IN  shorter \cup {Append(s, x) : s \in {t \in shorter : Len(t) = n - 1}, x \in S}

----------------------------------------------------------------------------
(* One request at a time: a handler runs to completion, its result is      *)
(* returned, and the next request starts from the stored tables alone.     *)

\* Between requests; restocked is the count the call just answered returned
\* when it was a successful UpdateLowStockProducts, and -1 otherwise
NoCall == [op |-> "none", restocked |-> -1]
Idle == last.op = "none"

Respond ==
    /\ ~Idle
    /\ last' = [op |-> "none",
                restocked |-> IF last.op = "UpdateLowStockProducts"
                                 /\ last.error = "none"
                              THEN last.count ELSE -1]
    /\ UNCHANGED <<customers, products, orders, now, logs>>

----------------------------------------------------------------------------
(* Phone numbers are sequences of characters *)

AsciiDigits == {"0", "1", "2", "3", "4", "5", "6", "7", "8", "9"}
\* \d of a str pattern matches every Unicode decimal digit; one sample
UnicodeDigits == {"U+0663"}
NL == "\n"

IsDigit(c) == c \in AsciiDigits \cup UnicodeDigits

AllDigits(s, lo, hi) == \A i \in lo..hi : IsDigit(s[i])

\* \+1\d{10}
MatchPlusOne(s) ==
    /\ Len(s) = 12
    /\ s[1] = "+"
    /\ s[2] = "1"
    /\ AllDigits(s, 3, 12)

\* \d{3}-\d{3}-\d{4}
MatchDashed(s) ==
    /\ Len(s) = 12
    /\ AllDigits(s, 1, 3)
    /\ s[4] = "-"
    /\ AllDigits(s, 5, 7)
    /\ s[8] = "-"
    /\ AllDigits(s, 9, 12)

\* re.match(r"^(\+1\d{10}|\d{3}-\d{3}-\d{4})$", s): $ matches at the end of
\* the string and also just before a newline that ends the string
PhoneMatch(s) ==
    \/ MatchPlusOne(s)
    \/ MatchDashed(s)
    \/ /\ Len(s) > 0
       /\ s[Len(s)] = NL
       /\ LET t == SubSeq(s, 1, Len(s) - 1)
          IN  MatchPlusOne(t) \/ MatchDashed(t)

\* An optional GraphQL argument: left out, given as null, or given a value
Omitted == [kind |-> "omitted", val |-> <<>>]
Null == [kind |-> "null", val |-> <<>>]
Given(v) == [kind |-> "value", val |-> v]

\* Python truth of input.phone: None and "" are false
PhoneTruthy(p) == p.kind = "value" /\ p.val # <<>>

\* input.get("phone", ""): the default only when the key is absent
PhoneArg(p) == IF p.kind = "omitted" THEN Given(<<>>) ELSE p

----------------------------------------------------------------------------
(* Customer *)

WellFormedEmails == {"a@x.com", "b@x.com"}
MalformedEmails == {"not-an-email"}

\* EmailValidator of models.EmailField
EmailWellFormed(e) == e \in WellFormedEmails

\* Customer.objects.filter(email=...).exists(); the unique=True column runs
\* the same lookup in validate_unique and in the unique index
EmailExistsWrongField(cs, email) == \E i \in DOMAIN cs : cs[i].name = email
EmailExists(cs, email) == \E i \in DOMAIN cs : cs[i].email = email

\* Customer.clean
clean(c) == ~(PhoneTruthy(c.phone) /\ ~PhoneMatch(c.phone.val))

\* Model.full_clean of a Customer: clean_fields (name not blank, email well
\* formed, phone skipped when empty and at most 20 characters otherwise),
\* clean, validate_unique
full_clean(c, cs) ==
    /\ c.name # ""
    /\ EmailWellFormed(c.email)
    /\ (PhoneTruthy(c.phone) => Len(c.phone.val) <= 20)
    /\ clean(c)
    /\ ~EmailExists(cs, c.email)

\* Model.save of a Customer: the insert fails on a NULL phone (the column is
\* NOT NULL), on a taken email (unique index) or on a failure of the store
SaveFails(c, cs, fault) ==
    \/ fault
    \/ c.phone.kind = "null"
    \/ EmailExists(cs, c.email)

Row(c) == [name |-> c.name, email |-> c.email, phone |-> c.phone.val]

\* transaction.atomic(): leaving the block commits the work, unless a failed
\* statement marked the transaction for rollback or an exception leaves it
atomicNoRollback(pre, work, rollback) == work
atomic(pre, work, rollback) == IF rollback THEN pre ELSE work

CreateCustomerPhoneFirst(cs, in, fault) ==
    LET c == [name |-> in.name, email |-> in.email, phone |-> PhoneArg(in.phone)]
    IN  IF PhoneTruthy(in.phone) /\ ~PhoneMatch(in.phone.val)
        THEN [error |-> "InvalidPhoneFormat", customers |-> cs]
        ELSE IF EmailExists(cs, in.email)
        THEN [error |-> "DuplicateEmail", customers |-> cs]
        ELSE IF ~full_clean(c, cs)
        THEN [error |-> "ValidationError", customers |-> cs]
        ELSE IF SaveFails(c, cs, fault)
        THEN [error |-> "StorageFailure", customers |-> cs]
        ELSE [error |-> "none", customers |-> Append(cs, Row(c))]

\* CreateCustomer.mutate, as a function of the table and the input
CreateCustomerResult(cs, in, fault) ==
    LET c == [name |-> in.name, email |-> in.email, phone |-> PhoneArg(in.phone)]
    IN  IF EmailExists(cs, in.email)
        THEN [error |-> "DuplicateEmail", customers |-> cs]
        ELSE IF PhoneTruthy(in.phone) /\ ~PhoneMatch(in.phone.val)
        THEN [error |-> "InvalidPhoneFormat", customers |-> cs]
        ELSE IF ~full_clean(c, cs)
        THEN [error |-> "ValidationError", customers |-> cs]
        ELSE IF SaveFails(c, cs, fault)
        THEN [error |-> "StorageFailure", customers |-> cs]
        ELSE [error |-> "none", customers |-> Append(cs, Row(c))]

CreateCustomer(in, fault) ==
    LET r == CreateCustomerResult(customers, in, fault)
    IN  /\ Idle
        /\ customers' = r.customers
        /\ last' = [op |-> "CreateCustomer", input |-> in,
                    pre |-> [customers |-> customers, products |-> products,
                             orders |-> orders],
                    error |-> r.error]
        /\ UNCHANGED <<products, orders, now, logs>>

\* The message of record i (0-based, as enumerate counts) names Record i+1
Error(i, kind) == [index |-> i + 1, kind |-> kind]

\* One pass of the for loop of BulkCreateCustomers.mutate over record i
\* (0-based); st is the transaction's view of the table, the two result
\* lists, and whether a failed statement has broken the transaction
BulkStep(st, i, d, fault) ==
    LET c == [name |-> d.name, email |-> d.email, phone |-> PhoneArg(d.phone)]
    IN  IF st.broken
        \* every query raises TransactionManagementError until the block ends
        THEN [st EXCEPT !.errors = Append(@, Error(i, "Unexpected"))]
        ELSE IF EmailExists(st.db, d.email)
        THEN [st EXCEPT !.errors = Append(@, Error(i, "DuplicateEmail"))]
        ELSE IF PhoneTruthy(d.phone) /\ ~PhoneMatch(d.phone.val)
        THEN [st EXCEPT !.errors = Append(@, Error(i, "InvalidPhoneFormat"))]
        ELSE IF ~full_clean(c, st.db)
        THEN [st EXCEPT !.errors = Append(@, Error(i, "ValidationError"))]
        ELSE IF SaveFails(c, st.db, fault)
        THEN [st EXCEPT !.errors = Append(@, Error(i, "Unexpected")),
                        !.broken = TRUE]
        ELSE [st EXCEPT !.db = Append(@, Row(c)),
                        !.customers = Append(@, Row(c))]

RECURSIVE BulkLoop(_, _, _, _)
BulkLoop(input, i, faultAt, st) ==
    IF i >= Len(input) THEN st
    ELSE BulkLoop(input, i + 1, faultAt,
                  BulkStep(st, i, input[i + 1], faultAt = i + 1))

\* BulkCreateCustomers.mutate; faultAt is the record whose insert the store
\* fails (0: none)
BulkCreateCustomers(input, faultAt) ==
    LET st == BulkLoop(input, 0, faultAt,
                       [db |-> customers, customers |-> <<>>, errors |-> <<>>,
                        broken |-> FALSE])
    IN  /\ Idle
        /\ customers' = atomic(customers, st.db, st.broken)
        /\ last' = [op |-> "BulkCreateCustomers", input |-> input,
                    faultAt |-> faultAt,
                    pre |-> [customers |-> customers, products |-> products,
                             orders |-> orders],
                    customers |-> st.customers, errors |-> st.errors]
        /\ UNCHANGED <<products, orders, now, logs>>

----------------------------------------------------------------------------
(* Product *)

\* A Decimal argument: a number (in thousandths), or one of the special
\* values Decimal("NaN") and Decimal("Infinity")
Number(n) == [kind |-> "number", val |-> n]
NaN == [kind |-> "NaN", val |-> 0]
Infinity == [kind |-> "Infinity", val |-> 0]

\* Python truth of input.stock: None and 0 are false
StockTruthy(s) == s.kind = "value" /\ s.val # 0

\* input.get("stock", 0): the default only when the key is absent
StockArg(s) == IF s.kind = "omitted" THEN Given(0) ELSE s

\* Model.full_clean of a Product: name not blank, price a finite decimal of
\* at most two decimal places, stock not null and not negative
full_clean_product(p) ==
    /\ p.name # ""
    /\ p.price.kind = "number"
    /\ p.price.val % 10 = 0
    /\ p.stock.kind = "value"
    /\ p.stock.val >= 0

ProductRow(p) ==
    [name |-> p.name, description |-> "", price |-> p.price.val,
     stock |-> p.stock.val]

CreateProductZeroPrice(ps, in, fault) ==
    LET p == [name |-> in.name, price |-> in.price, stock |-> StockArg(in.stock)]
    IN  IF in.price.kind = "NaN"
        THEN [error |-> "Unexpected", products |-> ps]
        ELSE IF in.price.kind = "number" /\ in.price.val < 0
        THEN [error |-> "InvalidPrice", products |-> ps]
        ELSE IF StockTruthy(in.stock) /\ in.stock.val < 0
        THEN [error |-> "InvalidStock", products |-> ps]
        ELSE IF ~full_clean_product(p)
        THEN [error |-> "ValidationError", products |-> ps]
        ELSE IF fault
        THEN [error |-> "StorageFailure", products |-> ps]
        ELSE [error |-> "none", products |-> Append(ps, ProductRow(p))]

\* CreateProduct.mutate, as a function of the table and the input; comparing
\* Decimal("NaN") with 0 raises decimal.InvalidOperation, which is no
\* ValidationError
CreateProductResult(ps, in, fault) ==
    LET p == [name |-> in.name, price |-> in.price, stock |-> StockArg(in.stock)]
    IN  IF in.price.kind = "NaN"
        THEN [error |-> "Unexpected", products |-> ps]
        ELSE IF in.price.kind = "number" /\ in.price.val <= 0
        THEN [error |-> "InvalidPrice", products |-> ps]
        ELSE IF StockTruthy(in.stock) /\ in.stock.val < 0
        THEN [error |-> "InvalidStock", products |-> ps]
        ELSE IF ~full_clean_product(p)
        THEN [error |-> "ValidationError", products |-> ps]
        ELSE IF fault
        THEN [error |-> "StorageFailure", products |-> ps]
        ELSE [error |-> "none", products |-> Append(ps, ProductRow(p))]

CreateProduct(in, fault) ==
    LET r == CreateProductResult(products, in, fault)
    IN  /\ Idle
        /\ Len(products) < MaxProducts
        /\ products' = r.products
        /\ last' = [op |-> "CreateProduct", input |-> in,
                    pre |-> [customers |-> customers, products |-> products,
                             orders |-> orders],
                    error |-> r.error]
        /\ UNCHANGED <<customers, orders, now, logs>>

LowStockThreshold == 10
RestockQuantity == 10

\* filter(stock__lt=limit), as primary keys in primary-key order
RECURSIVE StockBelow(_, _, _)
StockBelow(ps, i, limit) ==
    IF i > Len(ps) THEN <<>>
    ELSE (IF ps[i].stock < limit THEN <<i>> ELSE <<>>) \o StockBelow(ps, i + 1, limit)

\* Product.objects.filter(stock__lt=10)
LowStockAtThreshold(ps) == StockBelow(ps, 1, LowStockThreshold + 1)
LowStock(ps) == StockBelow(ps, 1, LowStockThreshold)

\* product.stock += 10
RestockedTo(p) == [p EXCEPT !.stock = RestockQuantity]
Restocked(p) == [p EXCEPT !.stock = @ + RestockQuantity]

\* The for loop of UpdateLowStockProducts.mutate from its k-th product on;
\* faultAt is the save the store fails (0: none)
RECURSIVE RestockLoop(_, _, _, _)
RestockLoop(st, ids, k, faultAt) ==
    IF k > Len(ids) THEN st
    ELSE IF faultAt = k THEN [st EXCEPT !.failed = TRUE]
    ELSE LET p == Restocked(st.db[ids[k]])
         IN  RestockLoop([st EXCEPT !.db[ids[k]] = p,
                                    !.updated = Append(@, [id |-> ids[k], row |-> p])],
                         ids, k + 1, faultAt)

\* UpdateLowStockProducts.mutate, as a function of the table
UpdateLowStockResult(ps, faultAt) ==
    LET st == RestockLoop([db |-> ps, updated |-> <<>>, failed |-> FALSE],
                          LowStock(ps), 1, faultAt)
    IN  IF st.failed
        THEN [error |-> "Failed", products |-> atomic(ps, st.db, TRUE),
              updated_products |-> <<>>, count |-> 0]
        ELSE [error |-> "none", products |-> atomic(ps, st.db, FALSE),
              updated_products |-> st.updated, count |-> Len(st.updated)]

UpdateLowStockProducts(faultAt) ==
    LET r == UpdateLowStockResult(products, faultAt)
    IN  /\ Idle
        /\ products' = r.products
        /\ last' = [op |-> "UpdateLowStockProducts",
                    previous |-> last.restocked,
                    pre |-> [customers |-> customers, products |-> products,
                             orders |-> orders],
                    error |-> r.error,
                    updated_products |-> r.updated_products,
                    count |-> r.count]
        /\ UNCHANGED <<customers, orders, now, logs>>

----------------------------------------------------------------------------
(* Inputs of the product handlers *)

PriceInputs == {Number(-1000), Number(0), Number(5), Number(25000), NaN, Infinity}
StockInputs ==
    {Omitted, Null, Given(-1), Given(0), Given(3), Given(5), Given(9), Given(10),
     Given(15)}

ProductInputs ==
    [name : {"Laptop"}, price : PriceInputs, stock : StockInputs]
        \cup {[name |-> "", price |-> Number(25000), stock |-> Given(5)]}

----------------------------------------------------------------------------
(* Order *)

\* A graphene.ID argument: a number (or its decimal text), a text that is no
\* number, or, inside a list, null
Text == [kind |-> "text", val |-> 0]
NullId == [kind |-> "null", val |-> 0]

\* Product.objects.filter(pk__in=ids): the rows whose key is listed; a null
\* in the list matches nothing
Resolved(ps, ids) ==
    {i \in DOMAIN ps : \E k \in DOMAIN ids : ids[k] = Number(i)}

RECURSIVE SumPrices(_, _, _)
SumPrices(ps, attached, i) ==
    IF i > Len(ps) THEN 0
    ELSE (IF i \in attached THEN ps[i].price ELSE 0) + SumPrices(ps, attached, i + 1)

\* Order.update_total_amount (before its save)
update_total_amount_of_catalog(order, ps) ==
    [order EXCEPT !.total_amount = SumPrices(ps, DOMAIN ps, 1)]
update_total_amount(order, ps) ==
    [order EXCEPT !.total_amount = SumPrices(ps, order.products, 1)]

\* The atomic block of CreateOrder.mutate: its three writes, the store
\* failing write faultAt (0: none); the exception leaves the block
CreateOrderWrites(os, ps, customer, found, order_date, clock, faultAt) ==
    LET order == [customer |-> customer, products |-> {},
                  order_date |-> IF order_date.kind = "value"
                                 THEN order_date.val ELSE clock,
                  total_amount |-> 0]
        saved == Append(os, order)
        attached == [order EXCEPT !.products = found]
        withProducts == Append(os, attached)
        totalled == Append(os, update_total_amount(attached, ps))
    IN  IF faultAt = 1 THEN [failed |-> TRUE, orders |-> os]
        ELSE IF faultAt = 2 THEN [failed |-> TRUE, orders |-> saved]
        ELSE IF faultAt = 3 THEN [failed |-> TRUE, orders |-> withProducts]
        ELSE [failed |-> FALSE, orders |-> totalled]

CreateOrderNotAtomic(cs, ps, os, in, clock, faultAt) ==
    LET found == Resolved(ps, in.product_ids)
        w == CreateOrderWrites(os, ps, in.customer_id.val, found, in.order_date,
                               clock, faultAt)
    IN  IF in.customer_id.kind = "text"
        THEN [error |-> "Unexpected", orders |-> os]
        ELSE IF in.customer_id.val \notin DOMAIN cs
        THEN [error |-> "CustomerNotFound", orders |-> os]
        ELSE IF in.product_ids = <<>>
        THEN [error |-> "EmptyProductList", orders |-> os]
        ELSE IF \E k \in DOMAIN in.product_ids : in.product_ids[k].kind = "text"
        THEN [error |-> "Unexpected", orders |-> os]
        ELSE IF Cardinality(found) # Len(in.product_ids)
        THEN [error |-> "InvalidProductId", orders |-> os]
        ELSE IF w.failed
        THEN [error |-> "StorageFailure", orders |-> w.orders]
        ELSE [error |-> "none", orders |-> w.orders]

\* CreateOrder.mutate with the count of the distinct requested ids in place
\* of len(input.product_ids)
CreateOrderDistinctCount(cs, ps, os, in, clock, faultAt) ==
    LET found == Resolved(ps, in.product_ids)
        distinct == {in.product_ids[k] : k \in DOMAIN in.product_ids}
        w == CreateOrderWrites(os, ps, in.customer_id.val, found, in.order_date,
                               clock, faultAt)
    IN  IF in.customer_id.kind = "text"
        THEN [error |-> "Unexpected", orders |-> os]
        ELSE IF in.customer_id.val \notin DOMAIN cs
        THEN [error |-> "CustomerNotFound", orders |-> os]
        ELSE IF in.product_ids = <<>>
        THEN [error |-> "EmptyProductList", orders |-> os]
        ELSE IF \E k \in DOMAIN in.product_ids : in.product_ids[k].kind = "text"
        THEN [error |-> "Unexpected", orders |-> os]
        ELSE IF Cardinality(found) # Cardinality(distinct)
        THEN [error |-> "InvalidProductId", orders |-> os]
        ELSE IF w.failed
        THEN [error |-> "StorageFailure", orders |-> atomic(os, w.orders, TRUE)]
        ELSE [error |-> "none", orders |-> atomic(os, w.orders, FALSE)]

\* CreateOrder.mutate, as a function of the tables and the input; a key that
\* is no number makes the lookup raise ValueError, which no except clause of
\* the handler catches
CreateOrderResult(cs, ps, os, in, clock, faultAt) ==
    LET found == Resolved(ps, in.product_ids)
        w == CreateOrderWrites(os, ps, in.customer_id.val, found, in.order_date,
                               clock, faultAt)
    IN  IF in.customer_id.kind = "text"
        THEN [error |-> "Unexpected", orders |-> os]
        ELSE IF in.customer_id.val \notin DOMAIN cs
        THEN [error |-> "CustomerNotFound", orders |-> os]
        ELSE IF in.product_ids = <<>>
        THEN [error |-> "EmptyProductList", orders |-> os]
        ELSE IF \E k \in DOMAIN in.product_ids : in.product_ids[k].kind = "text"
        THEN [error |-> "Unexpected", orders |-> os]
        ELSE IF Cardinality(found) # Len(in.product_ids)
        THEN [error |-> "InvalidProductId", orders |-> os]
        ELSE IF w.failed
        THEN [error |-> "StorageFailure", orders |-> atomic(os, w.orders, TRUE)]
        ELSE [error |-> "none", orders |-> atomic(os, w.orders, FALSE)]

CreateOrder(in, faultAt) ==
    LET r == CreateOrderResult(customers, products, orders, in, now, faultAt)
    IN  /\ Idle
        /\ orders' = r.orders
        /\ last' = [op |-> "CreateOrder", input |-> in,
                    pre |-> [customers |-> customers, products |-> products,
                             orders |-> orders],
                    error |-> r.error,
                    failedAt |-> IF r.error = "StorageFailure" THEN faultAt ELSE 0]
        /\ UNCHANGED <<customers, products, now, logs>>

----------------------------------------------------------------------------
(* Inputs of the customer handlers *)

Names == {"Al", ""}
Emails == WellFormedEmails \cup MalformedEmails

PlusOnePhone == <<"+", "1", "1", "2", "3", "4", "5", "6", "7", "8", "9", "0">>
DashedPhone == <<"1", "2", "3", "-", "4", "5", "6", "-", "7", "8", "9", "0">>
ShortPhone == <<"1", "2", "3", "4", "5">>

PhoneInputs ==
    {Omitted, Null, Given(<<>>), Given(PlusOnePhone), Given(DashedPhone),
     Given(ShortPhone), Given(Append(DashedPhone, NL))}

CustomerInputs == [name : Names, email : Emails, phone : PhoneInputs]

\* Records for the batches: valid ones, and one for each way to fail
BulkRecords ==
    {[name |-> "Al", email |-> "a@x.com", phone |-> Omitted],
     [name |-> "Al", email |-> "b@x.com", phone |-> Given(PlusOnePhone)],
     [name |-> "Al", email |-> "b@x.com", phone |-> Given(ShortPhone)],
     [name |-> "", email |-> "a@x.com", phone |-> Given(DashedPhone)],
     [name |-> "Al", email |-> "not-an-email", phone |-> Omitted],
     [name |-> "Al", email |-> "b@x.com", phone |-> Null],
     [name |-> "Al", email |-> "a@x.com", phone |-> Given(Append(DashedPhone, NL))]}

----------------------------------------------------------------------------
(* Inputs while orders are placed: few customers and products, every kind   *)
(* of CreateOrder argument                                                  *)

ShopCustomers == {[name |-> "Al", email |-> "a@x.com", phone |-> Omitted]}

ShopProducts ==
    {[name |-> "Laptop", price |-> Number(1200000), stock |-> Given(15)],
     [name |-> "Mouse", price |-> Number(25000), stock |-> Given(5)],
     [name |-> "Mouse", price |-> Number(0), stock |-> Omitted]}

CustomerIds == {Number(1), Number(2), Text}

ProductIdLists ==
    {<<>>, <<Number(1)>>, <<Number(2)>>, <<Number(1), Number(2)>>,
     <<Number(2), Number(1)>>, <<Number(1), Number(1)>>,
     <<Number(1), Number(3)>>, <<Number(1), Number(2), Number(3)>>,
     <<Text>>, <<Number(1), NullId>>}

OrderInputs ==
    [customer_id : CustomerIds, product_ids : ProductIdLists,
     order_date : {Omitted, Null, Given(1)}]

----------------------------------------------------------------------------
(* Periodic jobs: each reads or writes through the GraphQL endpoint and      *)
(* appends to its own log file. reachable tells whether the endpoint         *)
(* answers; writable tells whether the log file can be opened for append.    *)
(* A job's entry in last records whether the exception left the job.         *)

NoLogs == [heartbeat |-> <<>>, low_stock |-> <<>>, report |-> <<>>,
           reminders |-> <<>>]

\* Lines in all the log files
Logged == Len(logs.heartbeat) + Len(logs.low_stock) + Len(logs.report)
              + Len(logs.reminders)

MaxLogged == 2     \* jobs run while the log files hold fewer lines than this

Pre == [customers |-> customers, products |-> products, orders |-> orders,
        logs |-> logs]

\* log_crm_heartbeat with a message that ignores the probe's failure
HeartbeatMessageWithoutProbe(clock, reachable) ==
    [timestamp |-> clock, text |-> "CRM is alive",
     graphql |-> "responsive", detail |-> "Hello from CRM GraphQL API!"]

\* log_crm_heartbeat: the message, extended by the probe's answer or error
HeartbeatMessage(clock, reachable) ==
    IF reachable
    THEN [timestamp |-> clock, text |-> "CRM is alive",
          graphql |-> "responsive", detail |-> "Hello from CRM GraphQL API!"]
    ELSE [timestamp |-> clock, text |-> "CRM is alive",
          graphql |-> "error", detail |-> "ConnectionError"]

log_crm_heartbeat(reachable, writable) ==
    LET heartbeat_message == HeartbeatMessage(now, reachable)
    IN  /\ Idle
        /\ Logged < MaxLogged
        /\ logs' = IF writable
                   THEN [logs EXCEPT !.heartbeat = Append(@, heartbeat_message)]
                   ELSE logs
        /\ last' = [op |-> "log_crm_heartbeat", pre |-> Pre,
                    reachable |-> reachable, writable |-> writable,
                    readFailed |-> ~reachable, raised |-> FALSE]
        /\ UNCHANGED <<customers, products, orders, now>>

\* update_low_stock: log_entries of a mutation result
RECURSIVE ProductEntries(_, _, _)
ProductEntries(clock, updated_products, k) ==
    IF k > Len(updated_products) THEN <<>>
    ELSE <<[timestamp |-> clock, text |-> "Updated product",
            name |-> updated_products[k].row.name,
            stock |-> updated_products[k].row.stock]>>
             \o ProductEntries(clock, updated_products, k + 1)

SweepBody(clock, r) ==
    IF r.updated_products # <<>>
    THEN ProductEntries(clock, r.updated_products, 1)
    ELSE <<[timestamp |-> clock, text |-> "No low-stock products found to update"]>>

SweepEntriesWithoutHeader(clock, r) == SweepBody(clock, r)

SweepEntries(clock, r) ==
    <<[timestamp |-> clock, text |-> "Low stock update executed",
       count |-> r.count]>> \o SweepBody(clock, r)

\* The except clause of update_low_stock and of send_order_reminders: the
\* error line is written with no guard around the open
ErrorLine(clock, cause) == [timestamp |-> clock, text |-> "ERROR", cause |-> cause]

\* update_low_stock, as a function of the product table and its log file
update_low_stock_result(ps, log, clock, reachable, faultAt, writable) ==
    LET r == UpdateLowStockResult(ps, faultAt)
        cause == IF ~reachable THEN "ConnectionError"
                 ELSE IF r.error # "none" THEN "Failed to update low-stock products"
                 ELSE IF ~writable THEN "OSError"
                 ELSE "none"
        after == IF reachable THEN r.products ELSE ps
    IN  IF cause = "none"
        THEN [products |-> after, log |-> log \o SweepEntries(clock, r),
              cause |-> cause, raised |-> FALSE, result |-> r]
        ELSE IF writable
        THEN [products |-> after, log |-> Append(log, ErrorLine(clock, cause)),
              cause |-> cause, raised |-> FALSE, result |-> r]
        ELSE [products |-> after, log |-> log,
              cause |-> cause, raised |-> TRUE, result |-> r]

update_low_stock(reachable, faultAt, writable) ==
    LET j == update_low_stock_result(products, logs.low_stock, now, reachable,
                                     faultAt, writable)
    IN  /\ Idle
        /\ Logged < MaxLogged
        /\ products' = j.products
        /\ logs' = [logs EXCEPT !.low_stock = j.log]
        /\ last' = [op |-> "update_low_stock", pre |-> Pre,
                    reachable |-> reachable, writable |-> writable,
                    readFailed |-> (~reachable \/ j.result.error # "none"),
                    cause |-> j.cause, raised |-> j.raised,
                    updated_products |-> IF reachable /\ j.result.error = "none"
                                         THEN j.result.updated_products ELSE <<>>]
        /\ UNCHANGED <<customers, orders, now>>

\* generate_crm_report: the counts and the summed revenue of the answer
RECURSIVE Revenue(_, _)
Revenue(os, k) ==
    IF k > Len(os) THEN 0 ELSE os[k].total_amount + Revenue(os, k + 1)

ReportMessage(clock, cs, os) ==
    [timestamp |-> clock, text |-> "Report", customers |-> Len(cs),
     orders |-> Len(os), revenue |-> Revenue(os, 1)]

generate_crm_report(reachable, writable) ==
    LET line == IF reachable THEN ReportMessage(now, customers, orders)
                ELSE [timestamp |-> now, text |-> "ERROR generating CRM report",
                      cause |-> "ConnectionError"]
    IN  /\ Idle
        /\ Logged < MaxLogged
        /\ logs' = IF writable THEN [logs EXCEPT !.report = Append(@, line)]
                   ELSE logs
        /\ last' = [op |-> "generate_crm_report", pre |-> Pre,
                    reachable |-> reachable, writable |-> writable,
                    readFailed |-> ~reachable, raised |-> ~reachable]
        /\ UNCHANGED <<customers, products, orders, now>>

ReminderWindowDays == 7

\* Query.resolve_all_orders with order_date_gte alone: the keys of the
\* orders dated at or after it, in key order
RECURSIVE OrdersSince(_, _, _)
OrdersSince(os, since, k) ==
    IF k > Len(os) THEN <<>>
    ELSE (IF os[k].order_date >= since THEN <<k>> ELSE <<>>)
             \o OrdersSince(os, since, k + 1)

RECURSIVE ReminderEntries(_, _, _, _, _)
ReminderEntries(clock, cs, os, ids, k) ==
    IF k > Len(ids) THEN <<>>
    ELSE <<[timestamp |-> clock, text |-> "Order ID", order_id |-> ids[k],
            email |-> cs[os[ids[k]].customer].email]>>
             \o ReminderEntries(clock, cs, os, ids, k + 1)

\* send_order_reminders, as a function of the tables and its log file
send_order_reminders_result(cs, os, log, clock, reachable, writable) ==
    LET seven_days_ago == clock - ReminderWindowDays
        found == OrdersSince(os, seven_days_ago, 1)
        cause == IF ~reachable THEN "ConnectionError"
                 ELSE IF ~writable THEN "OSError"
                 ELSE "none"
    IN  IF cause = "none"
        THEN [log |-> log \o ReminderEntries(clock, cs, os, found, 1),
              cause |-> cause, raised |-> FALSE, orders |-> found]
        ELSE IF writable
        THEN [log |-> Append(log, ErrorLine(clock, cause)),
              cause |-> cause, raised |-> FALSE, orders |-> <<>>]
        ELSE [log |-> log, cause |-> cause, raised |-> TRUE, orders |-> <<>>]

send_order_reminders(reachable, writable) ==
    LET j == send_order_reminders_result(customers, orders, logs.reminders, now,
                                         reachable, writable)
    IN  /\ Idle
        /\ Logged < MaxLogged
        /\ logs' = [logs EXCEPT !.reminders = j.log]
        /\ last' = [op |-> "send_order_reminders", pre |-> Pre,
                    at |-> now, reachable |-> reachable, writable |-> writable,
                    readFailed |-> ~reachable, cause |-> j.cause,
                    raised |-> j.raised]
        /\ UNCHANGED <<customers, products, orders, now>>

\* A day passes
MaxNow == 1        \* last day of the clock
MaxDated == 2      \* most Order rows while reminders are swept

Tick ==
    /\ Idle
    /\ now < MaxNow
    /\ now' = now + 1
    /\ UNCHANGED <<customers, products, orders, logs, last>>

----------------------------------------------------------------------------

Init ==
    /\ customers = <<>>
    /\ products = <<>>
    /\ orders = <<>>
    /\ now = 0
    /\ logs = NoLogs
    /\ last = NoCall

NextCustomers ==
    \/ /\ Idle
       /\ \E in \in CustomerInputs, fault \in BOOLEAN : CreateCustomer(in, fault)
    \/ /\ Idle
       /\ \E input \in SeqsUpTo(BulkRecords, MaxBatch) :
              \E faultAt \in 0..Len(input) : BulkCreateCustomers(input, faultAt)
    \/ Respond

SpecCustomers == Init /\ [][NextCustomers]_vars

NextProducts ==
    \/ /\ Idle
       /\ \E in \in ProductInputs, fault \in BOOLEAN : CreateProduct(in, fault)
    \/ /\ Idle
       /\ \E faultAt \in 0..Len(products) : UpdateLowStockProducts(faultAt)
    \/ Respond

SpecProducts == Init /\ [][NextProducts]_vars

Next ==
    \/ /\ Idle
       /\ \E in \in ShopCustomers, fault \in BOOLEAN : CreateCustomer(in, fault)
    \/ /\ Idle
       /\ \E input \in SeqsUpTo(ShopCustomers, MaxBatch) :
              \E faultAt \in 0..Len(input) : BulkCreateCustomers(input, faultAt)
    \/ /\ Idle
       /\ Len(products) < MaxCatalog
       /\ \E in \in ShopProducts, fault \in BOOLEAN : CreateProduct(in, fault)
    \/ /\ Idle
       /\ \E faultAt \in 0..Len(products) : UpdateLowStockProducts(faultAt)
    \/ /\ Idle
       /\ Len(orders) < MaxOrders
       /\ \E in \in OrderInputs, faultAt \in 0..3 : CreateOrder(in, faultAt)
    \/ Respond

Spec == Init /\ [][Next]_vars

\* Orders placed while the jobs run, dated by the clock
JobOrderInputs ==
    [customer_id : {Number(1)}, product_ids : {<<Number(1)>>},
     order_date : {Omitted}]

\* Orders placed between reminder sweeps: dated by the clock, or by the
\* caller at the edge of the reminder window, before it, or in the future
DatedOrderInputs(clock) ==
    [customer_id : {Number(1)}, product_ids : {<<Number(1)>>},
     order_date : {Omitted, Given(clock - ReminderWindowDays),
                   Given(clock - ReminderWindowDays - 1), Given(clock + 1)}]

ReminderProducts == {[name |-> "Laptop", price |-> Number(1200000), stock |-> Given(15)]}

Endpoint == BOOLEAN   \* the GraphQL endpoint answers or not
Sink == BOOLEAN       \* the log file can be opened for append or not

NextJobs ==
    \/ /\ Idle
       /\ \E in \in ShopCustomers : CreateCustomer(in, FALSE)
    \/ /\ Idle
       /\ Len(products) < MaxCatalog
       /\ \E in \in ShopProducts : CreateProduct(in, FALSE)
    \/ /\ Idle
       /\ Len(orders) < MaxOrders
       /\ \E in \in JobOrderInputs : CreateOrder(in, 0)
    \/ /\ Idle
       /\ \E reachable \in Endpoint, writable \in Sink :
              log_crm_heartbeat(reachable, writable)
    \/ /\ Idle
       /\ \E reachable \in Endpoint, writable \in Sink :
              \E faultAt \in 0..Len(products) :
                  update_low_stock(reachable, faultAt, writable)
    \/ /\ Idle
       /\ \E reachable \in Endpoint, writable \in Sink :
              generate_crm_report(reachable, writable)
    \/ /\ Idle
       /\ \E reachable \in Endpoint, writable \in Sink :
              send_order_reminders(reachable, writable)
    \/ Respond

SpecJobs == Init /\ [][NextJobs]_vars

NextReminders ==
    \/ /\ Idle
       /\ \E in \in ShopCustomers : CreateCustomer(in, FALSE)
    \/ /\ Idle
       /\ Len(products) < MaxCatalog
       /\ \E in \in ReminderProducts : CreateProduct(in, FALSE)
    \/ /\ Idle
       /\ Len(orders) < MaxDated
       /\ \E in \in DatedOrderInputs(now) : CreateOrder(in, 0)
    \/ /\ Idle
       /\ \E reachable \in Endpoint, writable \in Sink :
              send_order_reminders(reachable, writable)
    \/ Tick
    \/ Respond

SpecReminders == Init /\ [][NextReminders]_vars

----------------------------------------------------------------------------
(* Vocabulary of the properties, stated without the handlers' operators *)

PreCustomers == last.pre.customers

EmailStored(cs, e) == \E k \in DOMAIN cs : cs[k].email = e

\* +1 and ten digits, or DDD-DDD-DDDD, digits being 0..9
PhoneOfAcceptedForm(s) ==
    /\ Len(s) = 12
    /\ \/ /\ s[1] = "+" /\ s[2] = "1"
          /\ \A i \in 3..12 : s[i] \in AsciiDigits
       \/ /\ s[4] = "-" /\ s[8] = "-"
          /\ \A i \in {1, 2, 3, 5, 6, 7, 9, 10, 11, 12} : s[i] \in AsciiDigits

PhoneMalformed(p) == p.kind = "value" /\ p.val # <<>> /\ ~PhoneOfAcceptedForm(p.val)

StoredPhone(p) == IF p.kind = "value" THEN p.val ELSE <<>>

ErrorIndices == {last.errors[k].index : k \in DOMAIN last.errors}

\* The batch met a failure of the store: some message is the unexpected-error one
StorageFailed == \E k \in DOMAIN last.errors : last.errors[k].kind = "Unexpected"

\* C1: CreateCustomer with an email that a stored customer already has fails
\* with the duplicate-email error, whatever the name and the phone are (so
\* before the phone check), and leaves the customer table as it was.
C1_DuplicateEmailRejected ==
    (last.op = "CreateCustomer" /\ EmailStored(PreCustomers, last.input.email))
        => (last.error = "DuplicateEmail" /\ customers = PreCustomers)

C1_Witness ==
    /\ last.op = "CreateCustomer"
    /\ EmailStored(PreCustomers, last.input.email)
    /\ PhoneMalformed(last.input.phone)
    /\ last.error = "DuplicateEmail"
    /\ customers = PreCustomers

\* C2: a batch that meets no failure of the store returns one customer or one
\* error per record (len(customers) + len(errors) = len(input)); the errors
\* name exactly the 1-based indices of the records that fail validation (an
\* email already stored or created earlier in the batch, a phone that is not
\* of an accepted form, a blank name, a malformed email), in input order, and
\* the customers are the other records in input order; a 3-record batch whose
\* record 2 alone fails, on a duplicate email, returns 2 customers and the
\* one error of Record 2.
C2_BulkPartialFailure ==
    (last.op = "BulkCreateCustomers" /\ ~StorageFailed) =>
        LET input == last.input
            n == Len(input)
            Fails[i \in 1..n] ==
                \/ EmailStored(PreCustomers, input[i].email)
                \/ \E j \in 1..(i - 1) :
                       input[j].email = input[i].email /\ ~Fails[j]
                \/ PhoneMalformed(input[i].phone)
                \/ input[i].name = ""
                \/ input[i].email \in MalformedEmails
            Duplicate[i \in 1..n] ==
                \/ EmailStored(PreCustomers, input[i].email)
                \/ \E j \in 1..(i - 1) :
                       input[j].email = input[i].email /\ ~Fails[j]
            failed == {i \in 1..n : Fails[i]}
        IN  /\ Len(last.customers) + Len(last.errors) = n
            /\ ErrorIndices = failed
            /\ \A k \in 1..(Len(last.errors) - 1) :
                   last.errors[k].index < last.errors[k + 1].index
            /\ \E f \in [1..Len(last.customers) -> 1..n] :
                   /\ \A k \in 1..(Len(last.customers) - 1) : f[k] < f[k + 1]
                   /\ {f[k] : k \in 1..Len(last.customers)} = (1..n) \ failed
                   /\ \A k \in 1..Len(last.customers) :
                          last.customers[k] =
                              [name |-> input[f[k]].name,
                               email |-> input[f[k]].email,
                               phone |-> StoredPhone(input[f[k]].phone)]
            /\ (n = 3 /\ failed = {2} /\ Duplicate[2]) =>
                   (Len(last.customers) = 2 /\ ErrorIndices = {2}
                    /\ Len(last.errors) = 1)

\* C3: a batch that meets a failure of the store persists none of its
\* records; a batch that meets none persists every customer it returns,
\* whatever number of its records failed validation.
C3_BulkAllOrNothing ==
    last.op = "BulkCreateCustomers" =>
        IF StorageFailed
        THEN customers = PreCustomers
        ELSE customers = PreCustomers \o last.customers

C3_Witness ==
    /\ last.op = "BulkCreateCustomers"
    /\ StorageFailed
    /\ last.customers # <<>>
    /\ \E k \in DOMAIN last.errors : last.errors[k].kind = "DuplicateEmail"
    /\ customers = PreCustomers

\* C4: no two stored customers have the same email.
C4_EmailsUnique ==
    \A i, j \in DOMAIN customers :
        i # j => customers[i].email # customers[j].email

C4_Witness ==
    /\ last.op = "BulkCreateCustomers"
    /\ ~StorageFailed
    /\ \E i, j \in DOMAIN last.input :
           /\ i < j
           /\ last.input[i].email = last.input[j].email
           /\ ~EmailStored(PreCustomers, last.input[i].email)
           /\ i \notin ErrorIndices
           /\ \E k \in DOMAIN last.errors :
                  last.errors[k] = [index |-> j, kind |-> "DuplicateEmail"]
    /\ Len(customers) > Len(PreCustomers)

PreProducts == last.pre.products

Succeeded == last.error = "none"

\* C8: CreateProduct with a price <= 0 fails with the invalid-price error;
\* with a positive price and a stock < 0 it fails with the invalid-stock
\* error; neither writes anything. A product created with stock left out has
\* stock 0. Every stored product has price > 0 and stock >= 0.
C8_ProductValidation ==
    /\ \A i \in DOMAIN products : products[i].price > 0 /\ products[i].stock >= 0
    /\ last.op = "CreateProduct" =>
           LET price == last.input.price
               stock == last.input.stock
           IN  /\ (price.kind = "number" /\ price.val <= 0)
                      => (last.error = "InvalidPrice" /\ products = PreProducts)
               /\ (price.kind = "number" /\ price.val > 0
                   /\ stock.kind = "value" /\ stock.val < 0)
                      => (last.error = "InvalidStock" /\ products = PreProducts)
               /\ (stock.kind = "value" /\ stock.val < 0) => products = PreProducts
               /\ (Succeeded /\ stock.kind = "omitted")
                      => (/\ Len(products) = Len(PreProducts) + 1
                          /\ products[Len(products)].stock = 0)

C8_Witness ==
    /\ last.op = "CreateProduct"
    /\ last.input.price = Number(0)
    /\ last.input.stock = Given(-1)
    /\ last.error = "InvalidPrice"
    /\ PreProducts # <<>>
    /\ \E i \in DOMAIN products : products[i].stock = 0
    /\ \E i \in DOMAIN products : products[i].stock = 13

LowBefore == {i \in DOMAIN PreProducts : PreProducts[i].stock < 10}

Stocks(ps) == [i \in DOMAIN ps |-> ps[i].stock]

\* C9: a successful UpdateLowStockProducts adds exactly 10 to the stock of
\* exactly the products whose stock was below 10, changes nothing else,
\* returns exactly the updated products, once each and as updated, and a
\* count equal to their number; stocks [5, 15, 3] become [15, 15, 13] with
\* count 2.
C9_RestockFrame ==
    (last.op = "UpdateLowStockProducts" /\ Succeeded) =>
        /\ DOMAIN products = DOMAIN PreProducts
        /\ \A i \in DOMAIN products :
               products[i] =
                   IF i \in LowBefore
                   THEN [PreProducts[i] EXCEPT !.stock = PreProducts[i].stock + 10]
                   ELSE PreProducts[i]
        /\ customers = last.pre.customers
        /\ orders = last.pre.orders
        /\ {last.updated_products[k].id : k \in DOMAIN last.updated_products}
               = LowBefore
        /\ Len(last.updated_products) = Cardinality(LowBefore)
        /\ \A k \in DOMAIN last.updated_products :
               last.updated_products[k].row = products[last.updated_products[k].id]
        /\ last.count = Cardinality(LowBefore)
        /\ Stocks(PreProducts) = <<5, 15, 3>>
               => (Stocks(products) = <<15, 15, 13>> /\ last.count = 2)

C9_Witness ==
    /\ last.op = "UpdateLowStockProducts"
    /\ Succeeded
    /\ Stocks(PreProducts) = <<5, 15, 3>>
    /\ Stocks(products) = <<15, 15, 13>>
    /\ last.count = 2

\* C10: a successful UpdateLowStockProducts returns a non-empty result when
\* some product was below the threshold, and leaves no product below it; a
\* call that directly follows a successful one returns count 0 and changes
\* no stock.
C10_SecondCallFindsNothing ==
    (last.op = "UpdateLowStockProducts" /\ Succeeded) =>
        /\ LowBefore # {} => (last.count > 0 /\ last.updated_products # <<>>)
        /\ \A i \in DOMAIN products : products[i].stock >= 10
        /\ last.previous >= 0 => (last.count = 0 /\ products = PreProducts)

C10_Witness ==
    /\ last.op = "UpdateLowStockProducts"
    /\ Succeeded
    /\ last.previous > 0
    /\ last.count = 0
    /\ products = PreProducts
    /\ products # <<>>

PreOrders == last.pre.orders

RECURSIVE PriceTotal(_, _)
PriceTotal(ps, S) ==
    IF S = {} THEN 0
    ELSE LET i == CHOOSE x \in S : TRUE
         IN  ps[i].price + PriceTotal(ps, S \ {i})

RequestedIds == {last.input.product_ids[k].val : k \in DOMAIN last.input.product_ids}

\* C5: the order a successful CreateOrder stores has the requested products
\* attached and a total_amount equal to the sum of their prices (1200.00 and
\* 25.00 give 1225.00); update_total_amount sets the total of any order to
\* the sum of the prices of its attached products, 0 when it has none, and
\* changes nothing else of it; every stored order has total_amount equal to
\* the sum of its attached products' prices.
C5_TotalIsSumOfPrices ==
    /\ \A k \in DOMAIN orders :
           orders[k].total_amount = PriceTotal(products, orders[k].products)
    /\ (last.op = "CreateOrder" /\ Succeeded) =>
           LET new == orders[Len(orders)]
           IN  /\ Len(orders) = Len(PreOrders) + 1
               /\ new.products = RequestedIds
               /\ new.total_amount = PriceTotal(products, RequestedIds)
               /\ (/\ Cardinality(new.products) = 2
                   /\ {products[i].price : i \in new.products} = {1200000, 25000})
                      => new.total_amount = 1225000
    /\ \A S \in SUBSET DOMAIN products, stale \in {0, 1225000} :
           LET order == [customer |-> 1, products |-> S, order_date |-> now,
                         total_amount |-> stale]
           IN  update_total_amount(order, products)
                   = [order EXCEPT !.total_amount = PriceTotal(products, S)]
    /\ \A stale \in {0, 1225000} :
           update_total_amount([customer |-> 1, products |-> {}, order_date |-> now,
                                total_amount |-> stale], products).total_amount = 0

C5_Witness ==
    /\ last.op = "CreateOrder"
    /\ Succeeded
    /\ Len(last.input.product_ids) = 2
    /\ {products[i].price : i \in orders[Len(orders)].products} = {1200000, 25000}
    /\ orders[Len(orders)].total_amount = 1225000

\* C6: CreateOrder fails with the customer-not-found error when customer_id
\* resolves to no customer; else with the empty-product-list error when
\* product_ids is empty; else with the invalid-product-id error when some id
\* of product_ids resolves to no product; and a failing CreateOrder creates
\* no order and changes no other table.
C6_OrderErrors ==
    last.op = "CreateOrder" =>
        LET cid == last.input.customer_id
            ids == last.input.product_ids
            customerResolves ==
                cid.kind = "number" /\ cid.val \in DOMAIN last.pre.customers
            allResolve ==
                \A k \in DOMAIN ids :
                    ids[k].kind = "number" /\ ids[k].val \in DOMAIN PreProducts
        IN  /\ ~customerResolves => last.error = "CustomerNotFound"
            /\ (customerResolves /\ ids = <<>>) => last.error = "EmptyProductList"
            /\ (customerResolves /\ ids # <<>> /\ ~allResolve)
                   => last.error = "InvalidProductId"
            /\ ~Succeeded => (/\ orders = PreOrders
                              /\ customers = last.pre.customers
                              /\ products = PreProducts)

\* C7: every stored order has at least one product attached and a
\* total_amount, not 0, equal to the sum of its attached products' prices;
\* a CreateOrder that fails at any of its three writes leaves no order row.
C7_OrderCreationAtomic ==
    /\ \A k \in DOMAIN orders :
           /\ orders[k].products # {}
           /\ orders[k].products \subseteq DOMAIN products
           /\ orders[k].total_amount = PriceTotal(products, orders[k].products)
           /\ orders[k].total_amount > 0
    /\ (last.op = "CreateOrder" /\ last.error = "StorageFailure")
           => orders = PreOrders

C7_Witness ==
    /\ last.op = "CreateOrder"
    /\ last.error = "StorageFailure"
    /\ last.failedAt = 3
    /\ Len(last.input.product_ids) = 2
    /\ orders = PreOrders

----------------------------------------------------------------------------
(* Phone rule and product-id count *)

\* C14: the phone check accepts exactly the phones of the two accepted forms
\* and the empty or absent phone: a CreateCustomer call with any other phone
\* is refused and stores nothing, a batch returns no customer for a record
\* with any other phone, a call that is valid otherwise and has an empty,
\* absent or accepted-form phone is not refused for its phone, and every
\* stored customer has a phone that is empty or of an accepted form.
C14_PhoneRule ==
    /\ \A k \in DOMAIN customers :
           customers[k].phone = <<>> \/ PhoneOfAcceptedForm(customers[k].phone)
    /\ (last.op = "CreateCustomer" /\ PhoneMalformed(last.input.phone))
           => (last.error # "none" /\ customers = PreCustomers)
    /\ (last.op = "CreateCustomer" /\ ~PhoneMalformed(last.input.phone))
           => last.error # "InvalidPhoneFormat"
    /\ last.op = "BulkCreateCustomers" =>
           \A k \in DOMAIN last.customers :
               last.customers[k].phone = <<>>
                   \/ PhoneOfAcceptedForm(last.customers[k].phone)

\* Some id occurs twice in the requested list
IdRepeated(ids) == \E j, k \in DOMAIN ids : j # k /\ ids[j] = ids[k]

\* Every requested id is the key of a stored product
AllIdsResolve(ids, ps) ==
    \A k \in DOMAIN ids : ids[k].kind = "number" /\ ids[k].val \in DOMAIN ps

\* C15: a CreateOrder call that meets no failure of the store succeeds
\* exactly when its customer exists, product_ids is not empty, every id is
\* the key of a stored product and no id occurs twice; a list of existing
\* ids with one occurring twice, for an existing customer, is refused with
\* the invalid-product-id error and no order is created.
C15_StrictCountMatch ==
    last.op = "CreateOrder" =>
        LET cid == last.input.customer_id
            ids == last.input.product_ids
            acceptable ==
                /\ cid.kind = "number" /\ cid.val \in DOMAIN last.pre.customers
                /\ ids # <<>>
                /\ AllIdsResolve(ids, PreProducts)
                /\ ~IdRepeated(ids)
        IN  /\ Succeeded => acceptable
            /\ (acceptable /\ last.failedAt = 0) => Succeeded
            /\ (/\ cid.kind = "number" /\ cid.val \in DOMAIN last.pre.customers
                /\ AllIdsResolve(ids, PreProducts)
                /\ IdRepeated(ids))
                   => (last.error = "InvalidProductId" /\ orders = PreOrders)

C15_Witness ==
    /\ last.op = "CreateOrder"
    /\ last.input.product_ids = <<Number(1), Number(1)>>
    /\ last.input.customer_id.val \in DOMAIN last.pre.customers
    /\ 1 \in DOMAIN PreProducts
    /\ last.error = "InvalidProductId"
    /\ orders = PreOrders

----------------------------------------------------------------------------
(* Periodic jobs *)

JobOps == {"log_crm_heartbeat", "update_low_stock", "generate_crm_report",
           "send_order_reminders"}

\* The lines a job run added to a log file, given the file before the run
Appended(log, before) == SubSeq(log, Len(before) + 1, Len(log))
Extends(log, before) ==
    Len(before) <= Len(log) /\ SubSeq(log, 1, Len(before)) = before

\* C11: with its log file open for append, a run of the heartbeat appends
\* exactly one line, which carries the probe's error when the probe failed,
\* and a heartbeat run never raises; a run of the low-stock sweep or of the
\* order reminder sweep whose GraphQL call failed appends exactly one error
\* line and does not raise; a run of the report generation whose query
\* failed appends exactly one error line and raises; no job other than the
\* report generation raises.
C11_JobsLogOnFailure ==
    /\ last.op = "log_crm_heartbeat" =>
           /\ ~last.raised
           /\ last.writable =>
                  /\ Extends(logs.heartbeat, last.pre.logs.heartbeat)
                  /\ Len(Appended(logs.heartbeat, last.pre.logs.heartbeat)) = 1
                  /\ last.readFailed
                         => logs.heartbeat[Len(logs.heartbeat)].graphql = "error"
    /\ (last.op = "update_low_stock" /\ last.readFailed /\ last.writable) =>
           /\ ~last.raised
           /\ Extends(logs.low_stock, last.pre.logs.low_stock)
           /\ Len(Appended(logs.low_stock, last.pre.logs.low_stock)) = 1
           /\ logs.low_stock[Len(logs.low_stock)].text = "ERROR"
    /\ (last.op = "send_order_reminders" /\ last.readFailed /\ last.writable) =>
           /\ ~last.raised
           /\ Extends(logs.reminders, last.pre.logs.reminders)
           /\ Len(Appended(logs.reminders, last.pre.logs.reminders)) = 1
           /\ logs.reminders[Len(logs.reminders)].text = "ERROR"
    /\ (last.op = "generate_crm_report" /\ last.readFailed) =>
           /\ last.raised
           /\ last.writable =>
                  /\ Extends(logs.report, last.pre.logs.report)
                  /\ Len(Appended(logs.report, last.pre.logs.report)) = 1
                  /\ logs.report[Len(logs.report)].text
                         = "ERROR generating CRM report"
    /\ (last.op \in JobOps /\ last.writable /\ last.raised)
           => last.op = "generate_crm_report"

C11_Witness ==
    /\ last.op = "generate_crm_report"
    /\ last.readFailed
    /\ last.writable
    /\ last.raised
    /\ Len(logs.report) = Len(last.pre.logs.report) + 1
    /\ logs.report[Len(logs.report)].text = "ERROR generating CRM report"

\* A sweep run that reached the mutation, had its answer and wrote its record
SweepSucceeded ==
    last.op = "update_low_stock" /\ ~last.readFailed /\ last.writable

\* C12 as stated: a successful sweep appends one line per updated product
\* and nothing else, or, when nothing was updated, exactly one line, the
\* "no action" line.
C12_SweepRecord ==
    SweepSucceeded =>
        LET added == Appended(logs.low_stock, last.pre.logs.low_stock)
            n == Len(last.updated_products)
        IN  /\ Extends(logs.low_stock, last.pre.logs.low_stock)
            /\ n > 0 => (/\ Len(added) = n
                         /\ \A k \in 1..n : added[k].text = "Updated product")
            /\ n = 0 => (/\ Len(added) = 1
                         /\ added[1].text = "No low-stock products found to update")

\* C12, amended: a successful sweep appends a header line carrying the
\* mutation's answer, followed by one line per updated product, in the
\* order of the answer, with the product's name and new stock, or, when
\* nothing was updated, followed by the single "no action" line (two lines
\* in that case).
C12_SweepRecordWithHeader ==
    SweepSucceeded =>
        LET added == Appended(logs.low_stock, last.pre.logs.low_stock)
            n == Len(last.updated_products)
        IN  /\ Extends(logs.low_stock, last.pre.logs.low_stock)
            /\ Len(added) >= 1
            /\ added[1].text = "Low stock update executed"
            /\ added[1].count = n
            /\ n > 0 => (/\ Len(added) = n + 1
                         /\ \A k \in 1..n :
                                /\ added[k + 1].text = "Updated product"
                                /\ added[k + 1].name = last.updated_products[k].row.name
                                /\ added[k + 1].stock
                                       = last.pre.products[last.updated_products[k].id].stock
                                             + RestockQuantity)
            /\ n = 0 => (/\ Len(added) = 2
                         /\ added[2].text = "No low-stock products found to update")

C12_Witness ==
    /\ SweepSucceeded
    /\ last.pre.products # <<>>
    /\ last.updated_products = <<>>
    /\ Len(logs.low_stock) = Len(last.pre.logs.low_stock) + 2
    /\ logs.low_stock[Len(logs.low_stock)].text = "No low-stock products found to update"

\* C13: a successful run of the order reminder sweep appends exactly one
\* line, with the order's id and its customer's email, for each stored order
\* dated within the 7 days that end at the run, and no line for any other
\* order.
C13_ReminderWindow ==
    (last.op = "send_order_reminders" /\ ~last.readFailed /\ last.writable) =>
        LET added == Appended(logs.reminders, last.pre.logs.reminders)
            inWindow == {k \in DOMAIN orders :
                             /\ orders[k].order_date >= last.at - ReminderWindowDays
                             /\ orders[k].order_date <= last.at}
        IN  /\ Extends(logs.reminders, last.pre.logs.reminders)
            /\ ~last.raised
            /\ \A k \in inWindow :
                   Cardinality({i \in DOMAIN added : added[i].order_id = k}) = 1
            /\ \A i \in DOMAIN added :
                   /\ added[i].text = "Order ID"
                   /\ added[i].order_id \in inWindow
                   /\ added[i].email = customers[orders[added[i].order_id].customer].email

====
